---- MODULE Spec2Model ----
(***************************************************************************)
(* A model of di2save's two programs:                                      *)
(*   tools/generate_commands.py  the help-text parser and the crawler      *)
(*   api/main.py                 the HTTP command dispatcher               *)
(* Text is modelled at the character level: a string is a sequence of      *)
(* one-character atoms ("NL" is the newline, "TAB" the tab), a token is a  *)
(* string, a CommandPath is a sequence of tokens.                          *)
(***************************************************************************)
EXTENDS Integers, Sequences, FiniteSets, TLC

VARIABLES
    \* ---- parse_subcommands, applied to one help text
    pLines,      \* the lines the help text is made of
    pText,       \* help_text: the lines joined by newlines
    pOut,        \* the returned list
    ppc,         \* "ready" before the call, "done" after
    \* ---- api/main.py
    cmdFile,     \* what COMMANDS_FILE holds when the module is imported
    COMMANDS,    \* the module-level registry, set by load_commands
    dpc,         \* "boot", then "serving" or "aborted"
    rq,          \* per request in flight: its inputs, locals, response and effects
    \* ---- tools/generate_commands.py
    seedLines,   \* the lines of HELP_SEEDS_RAW
    q,           \* the work queue
    registry,    \* dotted key -> {"argv": path}
    visited_help_paths,
    helpTree,    \* what ./di2save --help <path> prints, for the paths asked so far
    probes,      \* the paths run_help_tokens was called with, in order
    regLog,      \* the token lists written to the registry, in order
    cpc,         \* "start", "crawl", "write", "done"
    outFile,     \* the content of OUT_FILE: <<key, argv>> pairs in file order
    writes       \* how many times OUT_FILE was written

parseVars == <<pLines, pText, pOut, ppc>>
apiVars == <<cmdFile, COMMANDS, dpc, rq>>
crawlVars == <<seedLines, q, registry, visited_help_paths, helpTree, probes, regLog,
               cpc, outFile, writes>>

----------------------------------------------------------------------------
(* Strings *)

NL == "NL"
SP == " "

RECURSIVE JoinWith(_, _)
\* sep.join(parts)
JoinWith(sep, parts) ==
    IF parts = <<>> THEN <<>>
    ELSE IF Len(parts) = 1 THEN parts[1]
    ELSE parts[1] \o sep \o JoinWith(sep, Tail(parts))

Range(s) == {s[i] : i \in 1..Len(s)}

Last(s) == s[Len(s)]

\* characters \s matches; a line holds no newline once splitlines has cut it
IsSpace(c) == c \in {" ", "TAB", "NL"}

UpperChars == <<"S", "U", "B", "C", "O", "M", "A", "N", "D">>
LowerChars == <<"s", "u", "b", "c", "o", "m", "a", "n", "d">>
Digits == {"1", "2"}

\* re.IGNORECASE: both sides compared in lower case
Lower(c) ==
    IF \E i \in 1..Len(UpperChars) : UpperChars[i] = c
    THEN LowerChars[CHOOSE i \in 1..Len(UpperChars) : UpperChars[i] = c]
    ELSE c

\* [A-Za-z0-9]
IsAlnum(c) == c \in Range(UpperChars) \cup Range(LowerChars) \cup Digits
\* [A-Za-z0-9\-_]
IsIdChar(c) == IsAlnum(c) \/ c \in {"-", "_"}
\* \w, the characters \b tells apart from the rest
IsWord(c) == IsAlnum(c) \/ c = "_"

RECURSIVE SplitFrom(_, _, _, _)
SplitFrom(s, i, cur, acc) ==
    IF i > Len(s) THEN (IF cur = <<>> THEN acc ELSE Append(acc, cur))
    ELSE IF s[i] = NL THEN SplitFrom(s, i + 1, <<>>, Append(acc, cur))
    ELSE SplitFrom(s, i + 1, Append(cur, s[i]), acc)

\* str.splitlines(): cut at every newline, no empty last line
splitlines(s) == SplitFrom(s, 1, <<>>, <<>>)

\* number of leading whitespace characters of a line
RECURSIVE LeadSpaces(_, _)
LeadSpaces(line, i) ==
    IF i <= Len(line) /\ IsSpace(line[i]) THEN LeadSpaces(line, i + 1) ELSE i - 1

RECURSIVE TrailSpaces(_, _)
TrailSpaces(line, i) ==
    IF i >= 1 /\ IsSpace(line[i]) THEN TrailSpaces(line, i - 1) ELSE Len(line) - i

\* str.strip()
Strip(line) ==
    IF LeadSpaces(line, 1) = Len(line) THEN <<>>
    ELSE SubSeq(line, LeadSpaces(line, 1) + 1, Len(line) - TrailSpaces(line, Len(line)))

----------------------------------------------------------------------------
(* tools/generate_commands.py: parse_subcommands *)

HeaderWord == <<"s", "u", "b", "c", "o", "m", "m", "a", "n", "d", "s", ":">>

\* a header pattern without the \s*$ at its end
HeaderMatchPrefix(line) ==
    LET t == Strip(line) IN
    /\ Len(t) >= Len(HeaderWord)
    /\ \A i \in 1..Len(HeaderWord) : Lower(t[i]) = HeaderWord[i]

\* SUBCOMMANDS_HEADER_RE.match(line):  ^\s*Subcommands:\s*$  ignoring case
HeaderMatch(line) ==
    LET t == Strip(line) IN
    /\ Len(t) = Len(HeaderWord)
    /\ \A i \in 1..Len(t) : Lower(t[i]) = HeaderWord[i]

\* not line.strip()
IsBlank(line) == Strip(line) = <<>>

\* end of the longest run of [A-Za-z0-9\-_] that starts at position i
RECURSIVE IdRunEnd(_, _)
IdRunEnd(line, i) ==
    IF i <= Len(line) /\ IsIdChar(line[i]) THEN IdRunEnd(line, i + 1) ELSE i - 1

\* \b after the group: the regex gives back trailing characters until the
\* group ends in a word character (the character after it is never one)
RECURSIVE WordEnd(_, _)
WordEnd(line, e) == IF IsWord(line[e]) THEN e ELSE WordEnd(line, e - 1)

\* re.match(r"^\s{2,}([A-Za-z0-9][A-Za-z0-9\-_]*)\b", line) succeeds
IdentMatch(line) ==
    LET n == LeadSpaces(line, 1) IN
    /\ n >= 2
    /\ n < Len(line)
    /\ IsAlnum(line[n + 1])

\* m.group(1)
IdentGroup(line) ==
    LET n == LeadSpaces(line, 1) IN
    SubSeq(line, n + 1, WordEnd(line, IdRunEnd(line, n + 1)))

RECURSIVE ScanLinesResume(_, _, _, _)
\* a loop that leaves the block at a blank line and goes on to the next header
ScanLinesResume(lines, i, in_block, subs) ==
    IF i > Len(lines) THEN subs
    ELSE IF HeaderMatch(lines[i]) THEN ScanLinesResume(lines, i + 1, TRUE, subs)
    ELSE IF in_block
    THEN IF IsBlank(lines[i]) THEN ScanLinesResume(lines, i + 1, FALSE, subs)
         ELSE IF IdentMatch(lines[i])
              THEN ScanLinesResume(lines, i + 1, TRUE, Append(subs, IdentGroup(lines[i])))
              ELSE ScanLinesResume(lines, i + 1, TRUE, subs)
    ELSE ScanLinesResume(lines, i + 1, FALSE, subs)

RECURSIVE ScanLines(_, _, _, _)
\* the for loop over the lines: in_block, subs, and the break at a blank line
ScanLines(lines, i, in_block, subs) ==
    IF i > Len(lines) THEN subs
    ELSE IF HeaderMatch(lines[i]) THEN ScanLines(lines, i + 1, TRUE, subs)
    ELSE IF in_block
    THEN IF IsBlank(lines[i]) THEN subs
         ELSE IF IdentMatch(lines[i])
              THEN ScanLines(lines, i + 1, TRUE, Append(subs, IdentGroup(lines[i])))
              ELSE ScanLines(lines, i + 1, TRUE, subs)
    ELSE ScanLines(lines, i + 1, FALSE, subs)

RECURSIVE DeDupFrom(_, _, _)
DeDupFrom(subs, i, out) ==
    IF i > Len(subs) THEN out
    ELSE IF subs[i] \in Range(out) THEN DeDupFrom(subs, i + 1, out)
    ELSE DeDupFrom(subs, i + 1, Append(out, subs[i]))

\* a parser that collects indented names without waiting for the header
ParseNoHeader(help_text) ==
    ScanLines(splitlines(help_text), 1, TRUE, <<>>)

\* a parser that forgets the de-duplication pass
NoDeDup(subs) == subs

\* de-dup preserving order
DeDup(subs) == DeDupFrom(subs, 1, <<>>)

parse_subcommands(help_text) ==
    DeDup(ScanLines(splitlines(help_text), 1, FALSE, <<>>))

----------------------------------------------------------------------------
(* JSON and Python values *)

\* one shape for every JSON value: t is its type, the field of that type its content
JNull == [t |-> "null", b |-> FALSE, n |-> 0, s |-> <<>>, l |-> <<>>, m |-> <<>>]
JBool(x) == [JNull EXCEPT !.t = "bool", !.b = x]
JNum(x) == [JNull EXCEPT !.t = "num", !.n = x]
JStr(x) == [JNull EXCEPT !.t = "str", !.s = x]
JList(x) == [JNull EXCEPT !.t = "list", !.l = x]
JObj(x) == [JNull EXCEPT !.t = "obj", !.m = x]

\* bool(v)
Truthy(v) ==
    CASE v.t = "null" -> FALSE
      [] v.t = "bool" -> v.b
      [] v.t = "num" -> v.n # 0
      [] v.t = "str" -> v.s # <<>>
      [] v.t = "list" -> v.l # <<>>
      [] v.t = "obj" -> DOMAIN v.m # {}

StartsWith(s, p) == Len(p) <= Len(s) /\ SubSeq(s, 1, Len(p)) = p

\* sub in s, for strings
IsSubstring(sub, s) ==
    \E i \in 0..(Len(s) - Len(sub)) : SubSeq(s, i + 1, i + Len(sub)) = sub

ArgvWord == <<"a", "r", "g", "v">>

\* "argv" in v raises TypeError for a value that is no container
InRaises(v) == v.t \in {"num", "bool", "null"}

\* "argv" in v: a key of a dict, an item of a list, a substring of a string
HasArgv(v) ==
    CASE v.t = "obj" -> "argv" \in DOMAIN v.m
      [] v.t = "list" -> \E i \in 1..Len(v.l) : v.l[i].t = "str" /\ v.l[i].s = ArgvWord
      [] v.t = "str" -> IsSubstring(ArgvWord, v.s)
      [] OTHER -> FALSE

----------------------------------------------------------------------------
(* posixpath *)

RECURSIVE SplitOnFrom(_, _, _, _, _)
SplitOnFrom(s, sep, i, cur, acc) ==
    IF i > Len(s) THEN Append(acc, cur)
    ELSE IF s[i] = sep THEN SplitOnFrom(s, sep, i + 1, <<>>, Append(acc, cur))
    ELSE SplitOnFrom(s, sep, i + 1, Append(cur, s[i]), acc)

\* s.split(sep)
split(s, sep) == SplitOnFrom(s, sep, 1, <<>>, <<>>)

SEP == "/"
DotDot == <<".", ".">>

\* os.path.join(a, b)
path_join(a, b) ==
    IF StartsWith(b, <<SEP>>) THEN b
    ELSE IF a = <<>> \/ a[Len(a)] = SEP THEN a \o b
    ELSE a \o <<SEP>> \o b

RECURSIVE NormComps(_, _, _, _)
\* the loop of os.path.normpath over the components
NormComps(comps, i, initial_slashes, new_comps) ==
    IF i > Len(comps) THEN new_comps
    ELSE LET comp == comps[i] IN
         IF comp = <<>> \/ comp = <<".">>
         THEN NormComps(comps, i + 1, initial_slashes, new_comps)
         ELSE IF \/ comp # DotDot
                 \/ (initial_slashes = 0 /\ new_comps = <<>>)
                 \/ (new_comps # <<>> /\ new_comps[Len(new_comps)] = DotDot)
         THEN NormComps(comps, i + 1, initial_slashes, Append(new_comps, comp))
         ELSE IF new_comps # <<>>
         THEN NormComps(comps, i + 1, initial_slashes, SubSeq(new_comps, 1, Len(new_comps) - 1))
         ELSE NormComps(comps, i + 1, initial_slashes, new_comps)

\* os.path.normpath(path)
normpath(path) ==
    IF path = <<>> THEN <<".">>
    ELSE LET initial_slashes ==
                 IF StartsWith(path, <<SEP, SEP>>) /\ ~StartsWith(path, <<SEP, SEP, SEP>>) THEN 2
                 ELSE IF StartsWith(path, <<SEP>>) THEN 1 ELSE 0
             comps == NormComps(split(path, SEP), 1, initial_slashes, <<>>)
             out == [i \in 1..initial_slashes |-> SEP] \o JoinWith(<<SEP>>, comps)
         IN IF out = <<>> THEN <<".">> ELSE out

\* the working directory of the server process
CWD == <<"/", "w">>

\* os.path.abspath(path)
abspath(path) ==
    IF StartsWith(path, <<SEP>>) THEN normpath(path) ELSE normpath(path_join(CWD, path))

----------------------------------------------------------------------------
(* api/main.py *)

DI2SAVE_CMD == <<"./di2save">>
SAVE_DIR == <<"/", "d">>
MAX_OUTPUT_CHARS == 2
FileFlag == <<"--file">>

\* load_commands(): "ok" with the mapping, or the import fails
LoadOutcome(file) ==
    IF file.kind = "missing" THEN "RuntimeError"
    ELSE IF file.kind = "garbage" THEN "JSONDecodeError"
    ELSE IF file.value.t # "obj" THEN "ValueError"
    ELSE "ok"

\* a containment test that compares with base_abs alone, without the separator
UnsafeJoinUnder(base_dir, relative_path) ==
    LET base_abs == abspath(base_dir)
        candidate == abspath(path_join(base_abs, relative_path))
    IN [ok |-> StartsWith(candidate, base_abs), path |-> candidate]

\* safe_join_under(base_dir, relative_path): ok and the path, or HTTP 400
safe_join_under(base_dir, relative_path) ==
    LET base_abs == abspath(base_dir)
        candidate == abspath(path_join(base_abs, relative_path))
    IN IF candidate = base_abs THEN [ok |-> TRUE, path |-> candidate]
       ELSE IF ~StartsWith(candidate, base_abs \o <<SEP>>) THEN [ok |-> FALSE, path |-> candidate]
       ELSE [ok |-> TRUE, path |-> candidate]

TruncMarker == <<NL, NL, "[output truncated to ", ToString(MAX_OUTPUT_CHARS), " chars]", NL>>

\* a clamp that cuts one character early
ClampShort(s) ==
    IF Len(s) < MAX_OUTPUT_CHARS THEN s
    ELSE SubSeq(s, 1, MAX_OUTPUT_CHARS) \o TruncMarker

\* clamp_output(s)
clamp_output(s) ==
    IF Len(s) <= MAX_OUTPUT_CHARS THEN s
    ELSE SubSeq(s, 1, MAX_OUTPUT_CHARS) \o TruncMarker

\* the first statement of run_command treats every value without a usable argv
\* as an unknown command
LookupAll404(spec_present, spec) ==
    IF ~spec_present THEN "404"
    ELSE IF spec.t # "obj" THEN "404"
    ELSE IF "argv" \notin DOMAIN spec.m THEN "404"
    ELSE IF spec.m["argv"].t # "list" THEN "404"
    ELSE "ok"

\* lines 86-88: spec = COMMANDS.get(command_path) and the three-part test, left
\* to right; "500" is the TypeError the test itself raises
LookupOutcome(spec_present, spec) ==
    IF ~spec_present THEN "404"
    ELSE IF ~Truthy(spec) THEN "404"
    ELSE IF InRaises(spec) THEN "500"
    ELSE IF ~HasArgv(spec) THEN "404"
    ELSE IF spec.t # "obj" THEN "500"
    ELSE IF spec.m["argv"].t # "list" THEN "404"
    ELSE "ok"

\* cmd names a list object: its items and, when that object is the argv list of a
\* COMMANDS entry, the key of the entry
NoOwner == <<>>

\* a handler that works on the entry's own argv list
SharedCmd(key, argv) == [items |-> <<JStr(DI2SAVE_CMD)>> \o argv, owner |-> key]

\* line 90: cmd = [DI2SAVE_CMD] + list(spec["argv"]), a new list
NewCmd(key, argv) == [items |-> <<JStr(DI2SAVE_CMD)>> \o argv, owner |-> NoOwner]

\* lines 97 and 100: cmd += items extends the list object in place, so an entry
\* that shares the object sees the items too
AfterIAdd(commands, owner, items) ==
    IF owner = NoOwner THEN commands
    ELSE [commands EXCEPT ![owner] =
             [@ EXCEPT !.m = [@ EXCEPT !["argv"] = [@ EXCEPT !.l = @ \o items]]]]

\* the request slots
Reqs == {"r1", "r2"}

NoFile == [given |-> FALSE, v |-> <<>>]
File(p) == [given |-> TRUE, v |-> p]

NoResp == [status |-> 0, detail |-> "", cmd |-> <<>>, exit_code |-> 0,
           stdout |-> <<>>, stderr |-> <<>>]
HTTPException(status, detail) == [NoResp EXCEPT !.status = status, !.detail = detail]

\* p, the CompletedProcess or the TimeoutExpired that subprocess.run ended with
NoProc == [kind |-> "none", rc |-> 0, out |-> <<>>, err |-> <<>>]

Idle == [pc |-> "idle", key |-> <<>>, file |-> NoFile, extra |-> <<>>, cmd |-> <<>>,
         owner |-> NoOwner,
         file_path |-> <<>>, proc |-> NoProc, resp |-> NoResp,
         existsChecks |-> <<>>, spawns |-> <<>>]

\* the files and directories that exist
ExistingPaths == { <<"/", "d">>, <<"/", "d", "/", "x">>, <<"/", "x">>,
                   <<"/", "d", "x">>, <<"/">> }

\* os.path.exists(path)
exists(path) == path \in ExistingPaths

----------------------------------------------------------------------------
(* tools/generate_commands.py: seeds, crawl and main *)

MAX_DEPTH == 2

HelpFlag == <<"--help">>
DOT == "."

RECURSIVE WsSplitFrom(_, _, _, _)
WsSplitFrom(s, i, cur, acc) ==
    IF i > Len(s) THEN (IF cur = <<>> THEN acc ELSE Append(acc, cur))
    ELSE IF IsSpace(s[i])
    THEN WsSplitFrom(s, i + 1, <<>>, IF cur = <<>> THEN acc ELSE Append(acc, cur))
    ELSE WsSplitFrom(s, i + 1, Append(cur, s[i]), acc)

\* str.split(): the runs of non-whitespace characters
WsSplit(s) == WsSplitFrom(s, 1, <<>>, <<>>)

Item(kind, toks) == [kind |-> kind, toks |-> toks]

parse_seed_line(line) ==
    LET parts == WsSplit(Strip(line)) IN
    IF parts = <<>> THEN Item("", <<>>)
    ELSE IF parts[1] = HelpFlag THEN Item("helpflag", Tail(parts))
    ELSE Item("command", parts)

RECURSIVE SeedItems(_, _, _)
\* lines 80-87: one queue item per non-blank seed line
SeedItems(lines, i, acc) ==
    IF i > Len(lines) THEN acc
    ELSE IF Strip(lines[i]) = <<>> THEN SeedItems(lines, i + 1, acc)
    ELSE LET it == parse_seed_line(Strip(lines[i])) IN
         IF it.kind # "" THEN SeedItems(lines, i + 1, Append(acc, it))
         ELSE SeedItems(lines, i + 1, acc)

\* di2save_run: stdout, a newline, stderr
di2save_run(p) == p.out \o <<NL>> \o p.err

\* ".".join(path)
dotted_key(path) == JoinWith(<<DOT>>, path)

\* a registry whose argv is rebuilt from the dotted key
PutSplitKey(reg, path) ==
    (dotted_key(path) :> [argv |-> split(dotted_key(path), DOT)]) @@ reg

\* a registry that keeps the first value written under a key
PutIfAbsent(reg, path) ==
    IF dotted_key(path) \in DOMAIN reg THEN reg
    ELSE (dotted_key(path) :> [argv |-> path]) @@ reg

\* registry[dotted] = {"argv": path}
Put(reg, path) == (dotted_key(path) :> [argv |-> path]) @@ reg

\* a cap that stops one level early
TooDeepEarly(path) == Len(path) >= MAX_DEPTH

\* a cap that stops one level late
TooDeepLate(path) == Len(path) > MAX_DEPTH + 1

\* lines 100-102: depth = len(path); if depth > MAX_DEPTH: continue
TooDeep(path) == Len(path) > MAX_DEPTH

\* a crawler that puts the children at the front of the queue
ExtendLeft(queue, items) == items \o queue

\* lines 109-110: q.append(item) for each item, in order
Extend(queue, items) == queue \o items

\* a crawler that takes a path for visited once a path below it was
VisitedBelow(tpath, visited) == \E v \in visited : StartsWith(v, tpath)

\* a crawler that never finds a path in the visited set
NeverVisited(tpath, visited) == FALSE

\* line 96: tpath in visited_help_paths
AlreadyVisited(tpath, visited) == tpath \in visited

\* a crawler that registers every probed path, the root included
RegistersAny(path) == TRUE

\* line 114: if path
Registers(path) == path # <<>>

\* a loop that stops with one item left
LoopDoneEarly(queue) == Len(queue) <= 1

\* line 89: while q
LoopDone(queue) == queue = <<>>

\* code points, for the order json.dump(sort_keys=True) writes the keys in
Ord(c) ==
    CASE c = "-" -> 45 [] c = "." -> 46 [] c = "1" -> 49 [] c = "2" -> 50
      [] c = "_" -> 95 [] c = "a" -> 97 [] c = "b" -> 98 [] c = "c" -> 99
      [] c = "d" -> 100 [] OTHER -> 0

RECURSIVE StrLess(_, _)
\* s < t for Python strings
StrLess(s, t) ==
    IF t = <<>> THEN FALSE
    ELSE IF s = <<>> THEN TRUE
    ELSE IF Ord(Head(s)) # Ord(Head(t)) THEN Ord(Head(s)) < Ord(Head(t))
    ELSE StrLess(Tail(s), Tail(t))

RECURSIVE SortedKeys(_)
SortedKeys(S) ==
    IF S = {} THEN <<>>
    ELSE LET least == CHOOSE k \in S : \A o \in S \ {k} : StrLess(k, o) IN
         <<least>> \o SortedKeys(S \ {least})

\* json.dump(reg, f, indent=2, sort_keys=True)
json_dump(reg) ==
    LET keys == SortedKeys(DOMAIN reg) IN
    [i \in 1..Len(keys) |-> <<keys[i], reg[keys[i]].argv>>]

----------------------------------------------------------------------------
(* Help texts the parser is applied to *)

MaxLines == 4

Spaces(n) == [i \in 1..n |-> SP]

HeaderLine == <<"S", "u", "b", "c", "o", "m", "m", "a", "n", "d", "s", ":">>
HeaderLoud == <<" ", "S", "U", "B", "C", "O", "M", "M", "A", "N", "D", "S", ":", " ">>

\* an indented identifier line is an indent of two or more whitespace
\* characters, a command name (it starts with a letter or a digit and ends in a
\* letter, a digit or an underscore) and, optionally, a description
IdentLineParts ==
    { <<Spaces(2), <<"a">>, <<>>>>,
      <<Spaces(3), <<"a">>, <<" ", "d">>>>,
      <<Spaces(2), <<"b">>, <<>>>>,
      <<<<"TAB", " ">>, <<"1", "-", "b", "_">>, <<>>>> }

Render(p) == p[1] \o p[2] \o p[3]

IdentLines == {Render(p) : p \in IdentLineParts}

\* the command name an identifier line was written with
NameOf(line) == (CHOOSE p \in IdentLineParts : Render(p) = line)[2]

HeaderLines == {HeaderLine, HeaderLoud}

BlankLines == {<<>>, <<" ", " ">>}

OtherLines ==
    { <<" ", "a">>,                    \* one leading space: no match
      <<" ", " ", "b", "-">>,          \* trailing hyphen: the group is "b"
      <<"d", "d">>,                    \* text at column 0
      HeaderLine \o <<" ", "a">> }     \* text after the colon: no header

LineSet == HeaderLines \cup BlankLines \cup IdentLines \cup OtherLines

RECURSIVE SeqsUpTo(_, _)
\* the sequences over S of length at most n
SeqsUpTo(S, n) ==
    IF n = 0 THEN {<<>>}
    ELSE LET shorter == SeqsUpTo(S, n - 1) IN
         shorter \cup {Append(s, x) : s \in {t \in shorter : Len(t) = n - 1}, x \in S}

----------------------------------------------------------------------------
(* The registry files, requests and process results the dispatcher is given *)

\* the function a sequence of <<key, value>> pairs stands for
MapOf(pairs) ==
    [k \in {pairs[i][1] : i \in 1..Len(pairs)} |->
        pairs[CHOOSE i \in 1..Len(pairs) : pairs[i][1] = k][2]]

Entry(argv) == JObj([argv |-> JList([i \in 1..Len(argv) |-> JStr(argv[i])])])

\* a registry as the crawler writes it
CleanRegistry ==
    MapOf(<< <<<<"a">>, Entry(<< <<"a">> >>)>>,
             <<<<"a", ".", "b">>, Entry(<< <<"a">>, <<"b">> >>)>> >>)

\* a JSON object that load_commands accepts, with values of every kind
MixedRegistry ==
    MapOf(<< <<<<"a">>, Entry(<< <<"a">> >>)>>,
             <<<<"n">>, JNum(5)>>,
             <<<<"z">>, JNull>>,
             <<<<"s">>, JStr(<<"x", "a", "r", "g", "v">>)>>,
             <<<<"u">>, JStr(<<"x">>)>>,
             <<<<"l">>, JList(<<JStr(ArgvWord)>>)>>,
             <<<<"e">>, JObj(<<>>)>>,
             <<<<"o">>, JObj([note |-> JStr(<<"x">>)])>>,
             <<<<"v">>, JObj([argv |-> JStr(<<"a">>)])>>,
             <<<<"i">>, JObj([argv |-> JList(<<JStr(<<"a">>), JNum(5)>>)])>> >>)

CommandFiles ==
    << [kind |-> "missing", value |-> JNull],
       [kind |-> "garbage", value |-> JNull],
       [kind |-> "json", value |-> JList(<<>>)],
       [kind |-> "json", value |-> JObj(CleanRegistry)],
       [kind |-> "json", value |-> JObj(MixedRegistry)] >>

RequestKeys == DOMAIN MixedRegistry \cup DOMAIN CleanRegistry \cup {<<"q">>}

FilePaths ==
    { <<"x">>,                              \* /d/x: inside, exists
      <<"y">>,                              \* /d/y: inside, missing
      <<".">>,                              \* /d itself
      <<".", ".", "/", "x">>,               \* /x: outside
      <<".", ".", "/", "d", "/", "x">>,     \* leaves and re-enters: /d/x
      <<".", ".", "/", "d", "x">>,          \* /dx: outside, shares the prefix /d
      <<"/", "x">> }                        \* absolute, outside

RequestFiles == {NoFile, File(<<>>)} \cup {File(f) : f \in FilePaths}

RequestExtras == {<<>>, << <<"--flag">> >>}

Exit(rc, out, err) == [kind |-> "exit", rc |-> rc, out |-> out, err |-> err]

\* what subprocess.run may end with
ProcResults ==
    { [kind |-> "timeout", rc |-> 0, out |-> <<>>, err |-> <<>>],
      Exit(1, <<"o", "o">>, <<"e">>),
      Exit(0, <<"o", "o", "o">>, <<>>),
      Exit(2, <<"o">>, <<"e", "e", "e", "e">>) }

----------------------------------------------------------------------------
(* parse_subcommands as a state machine *)

Parse ==
    /\ ppc = "ready"
    /\ pOut' = parse_subcommands(pText)
    /\ ppc' = "done"
    /\ UNCHANGED <<pLines, pText>>

----------------------------------------------------------------------------
(* api/main.py as a state machine *)

\* COMMANDS = load_commands(), run once at import
Load ==
    /\ dpc = "boot"
    /\ IF LoadOutcome(cmdFile) = "ok"
       THEN COMMANDS' = cmdFile.value.m /\ dpc' = "serving"
       ELSE COMMANDS' = COMMANDS /\ dpc' = "aborted"
    /\ UNCHANGED <<cmdFile, rq>>

\* POST /run/{command_path} arrives with its body
Receive(r) ==
    /\ dpc = "serving"
    /\ rq[r].pc = "idle"
    /\ \E key \in RequestKeys, file \in RequestFiles, extra \in RequestExtras :
          rq' = [rq EXCEPT ![r] = [Idle EXCEPT !.pc = "lookup", !.key = key,
                                               !.file = file, !.extra = extra]]
    /\ UNCHANGED <<cmdFile, COMMANDS, dpc>>

\* GET /commands
list_commands(r) ==
    /\ dpc = "serving"
    /\ rq[r].pc = "idle"
    /\ rq' = [rq EXCEPT ![r] = [Idle EXCEPT !.pc = "done",
                                            !.resp = [NoResp EXCEPT !.status = 200,
                                                                     !.detail = "commands"]]]
    /\ UNCHANGED <<cmdFile, COMMANDS, dpc>>

\* lines 86-90: the lookup and cmd = [DI2SAVE_CMD] + list(spec["argv"])
Lookup(r) ==
    /\ rq[r].pc = "lookup"
    /\ LET present == rq[r].key \in DOMAIN COMMANDS
           spec == IF present THEN COMMANDS[rq[r].key] ELSE JNull
           outcome == LookupOutcome(present, spec)
       IN rq' = [rq EXCEPT ![r] =
                    IF outcome = "404"
                    THEN [@ EXCEPT !.pc = "done", !.resp = HTTPException(404, "Unknown command")]
                    ELSE IF outcome = "500"
                    THEN [@ EXCEPT !.pc = "done", !.resp = HTTPException(500, "TypeError")]
                    ELSE [@ EXCEPT !.pc = "file",
                                   !.cmd = NewCmd(rq[r].key, spec.m["argv"].l).items,
                                   !.owner = NewCmd(rq[r].key, spec.m["argv"].l).owner]]
    /\ UNCHANGED <<cmdFile, COMMANDS, dpc>>

\* lines 93-94: if req.file: file_path = safe_join_under(SAVE_DIR, req.file)
ResolveFile(r) ==
    /\ rq[r].pc = "file"
    /\ rq' = [rq EXCEPT ![r] =
                 IF rq[r].file.given /\ rq[r].file.v # <<>>
                 THEN LET j == safe_join_under(SAVE_DIR, rq[r].file.v) IN
                      IF j.ok
                      THEN [@ EXCEPT !.pc = "exists", !.file_path = j.path]
                      ELSE [@ EXCEPT !.pc = "done",
                                     !.resp = HTTPException(400, "Invalid file path (must be under SAVE_DIR)")]
                 ELSE [@ EXCEPT !.pc = "run"]]
    /\ UNCHANGED <<cmdFile, COMMANDS, dpc>>

\* lines 95-97: the existence check and cmd += ["--file", file_path]
CheckExists(r) ==
    /\ rq[r].pc = "exists"
    /\ rq' = [rq EXCEPT ![r] =
                 IF ~exists(rq[r].file_path)
                 THEN [@ EXCEPT !.pc = "done",
                                !.existsChecks = Append(@, rq[r].file_path),
                                !.resp = HTTPException(404, "Save file not found")]
                 ELSE [@ EXCEPT !.pc = "run",
                                !.existsChecks = Append(@, rq[r].file_path),
                                !.cmd = @ \o <<JStr(FileFlag), JStr(rq[r].file_path)>>]]
    /\ COMMANDS' = IF exists(rq[r].file_path)
                   THEN AfterIAdd(COMMANDS, rq[r].owner,
                                  <<JStr(FileFlag), JStr(rq[r].file_path)>>)
                   ELSE COMMANDS
    /\ UNCHANGED <<cmdFile, dpc>>

\* a handler that runs the command again when it timed out
RunRetrying(r, cmd, result) ==
    IF result.kind = "timeout"
    THEN [rq[r] EXCEPT !.pc = "done", !.cmd = cmd, !.spawns = Append(Append(@, cmd), cmd),
                       !.proc = result, !.resp = HTTPException(504, "Command timed out")]
    ELSE [rq[r] EXCEPT !.pc = "done", !.cmd = cmd, !.spawns = Append(@, cmd),
                       !.proc = result, !.resp = [status |-> 200, detail |-> "", cmd |-> cmd,
                                 exit_code |-> result.rc,
                                 stdout |-> clamp_output(result.out),
                                 stderr |-> clamp_output(result.err)]]

\* lines 102-118: subprocess.run(cmd, timeout=...) ending with result, and the response
RunOnce(r, cmd, result) ==
    IF result.kind = "timeout"
    THEN [rq[r] EXCEPT !.pc = "done", !.cmd = cmd, !.spawns = Append(@, cmd),
                       !.proc = result, !.resp = HTTPException(504, "Command timed out")]
    ELSE [rq[r] EXCEPT !.pc = "done", !.cmd = cmd, !.spawns = Append(@, cmd),
                       !.proc = result, !.resp = [status |-> 200, detail |-> "", cmd |-> cmd,
                                 exit_code |-> result.rc,
                                 stdout |-> clamp_output(result.out),
                                 stderr |-> clamp_output(result.err)]]

\* an argv that appends the extra tokens before the --file pair is in place
ExtraFirst(cmd, extra) ==
    LET toks == [i \in 1..Len(extra) |-> JStr(extra[i])] IN
    IF Len(cmd) >= 2 /\ cmd[Len(cmd) - 1].s = FileFlag
    THEN SubSeq(cmd, 1, Len(cmd) - 2) \o toks \o SubSeq(cmd, Len(cmd) - 1, Len(cmd))
    ELSE cmd \o toks

\* lines 99-100: if req.extra: cmd += list(req.extra)
WithExtra(cmd, extra) == cmd \o [i \in 1..Len(extra) |-> JStr(extra[i])]

\* lines 99-118: the extra tokens, the process and the response
Run(r) ==
    /\ rq[r].pc = "run"
    /\ LET cmd == WithExtra(rq[r].cmd, rq[r].extra) IN
       IF \E i \in 1..Len(cmd) : cmd[i].t # "str"
       THEN \* subprocess.run raises TypeError before any process starts
            rq' = [rq EXCEPT ![r] = [@ EXCEPT !.pc = "done", !.cmd = cmd,
                                               !.resp = HTTPException(500, "TypeError")]]
       ELSE \E result \in ProcResults : rq' = [rq EXCEPT ![r] = RunOnce(r, cmd, result)]
    /\ COMMANDS' = AfterIAdd(COMMANDS, rq[r].owner,
                             SubSeq(WithExtra(rq[r].cmd, rq[r].extra),
                                    Len(rq[r].cmd) + 1,
                                    Len(WithExtra(rq[r].cmd, rq[r].extra))))
    /\ UNCHANGED <<cmdFile, dpc>>

\* the response is sent and the handler returns
Finish(r) ==
    /\ rq[r].pc = "done"
    /\ rq' = [rq EXCEPT ![r] = Idle]
    /\ UNCHANGED <<cmdFile, COMMANDS, dpc>>

----------------------------------------------------------------------------
(* What the crawler is given: seed lines and the tool's help output *)

MaxSeeds == 2

SeedLineSet ==
    { <<"--help">>,                                   \* a help probe at the root
      <<"--help", " ", "a">>,                         \* a help probe at a
      <<" ", "--help", " ", "b", " ", "a", " ", "b">>,\* a help probe below the cap
      <<"a", ".", "b">>,                              \* the command "a.b", one token
      <<"b", " ", " ", "a", " ", "b">>,               \* a command of MAX_DEPTH + 1 tokens
      <<" ">> }                                       \* a blank line

TextOf(lines) == JoinWith(<<NL>>, lines) \o <<NL>>

HelpEmpty == [out |-> <<>>, err |-> <<>>]
\* indented names, but no Subcommands: header
HelpNoHeader == [out |-> TextOf(<< <<"d", "d">>, Spaces(2) \o <<"a">>, Spaces(2) \o <<"b">> >>),
                 err |-> <<>>]
HelpAB == [out |-> TextOf(<< HeaderLine, Spaces(2) \o <<"a">> \o <<" ", "d">>,
                              Spaces(2) \o <<"b">> >>),
           err |-> <<>>]
\* the block is printed on stderr: a twice, then a blank line, then b
HelpA == [out |-> TextOf(<< <<"d", "d">> >>),
          err |-> TextOf(<< HeaderLoud, Spaces(2) \o <<"a">>, Spaces(3) \o <<"a">>, <<>>,
                            Spaces(2) \o <<"b">> >>)]

\* help output with no parsable Subcommands block
MalformedOutputs == {HelpEmpty, HelpNoHeader}

HelpOutputs == MalformedOutputs \cup {HelpAB, HelpA}

\* lines 105-106: subs = parse_subcommands(run_help_tokens(path)), for each output
\* the tool may print
SubsOf == [p \in HelpOutputs |-> parse_subcommands(di2save_run(p))]

----------------------------------------------------------------------------
(* generate_commands.py as a state machine *)

\* lines 71-87: the root probe first, then the seeds in order
Enqueue ==
    /\ cpc = "start"
    /\ q' = SeedItems(seedLines, 1, <<Item("helpflag", <<>>)>>)
    /\ cpc' = "crawl"
    /\ UNCHANGED <<seedLines, registry, visited_help_paths, helpTree, probes, regLog,
                   outFile, writes>>

\* the loop body is about the item at position i of the queue; line 90,
\* q.popleft(), makes that the first
Taking(i, kind) == cpc = "crawl" /\ ~LoopDone(q) /\ i \in 1..Len(q) /\ q[i].kind = kind

\* the queue once the item at position i is out
Rest(i) == SubSeq(q, 1, i - 1) \o SubSeq(q, i + 1, Len(q))

Popping(kind) == Taking(1, kind)

\* lines 96-97: the path was seen before
SkipVisitedAt(i) ==
    /\ Taking(i, "helpflag")
    /\ AlreadyVisited(q[i].toks, visited_help_paths)
    /\ q' = Rest(i)
    /\ UNCHANGED <<seedLines, registry, visited_help_paths, helpTree, probes, regLog,
                   cpc, outFile, writes>>

SkipVisited == SkipVisitedAt(1)

\* lines 98-102: marked visited, then dropped for its depth
SkipDeepAt(i) ==
    /\ Taking(i, "helpflag")
    /\ ~AlreadyVisited(q[i].toks, visited_help_paths)
    /\ TooDeep(q[i].toks)
    /\ visited_help_paths' = visited_help_paths \cup {q[i].toks}
    /\ q' = Rest(i)
    /\ UNCHANGED <<seedLines, registry, helpTree, probes, regLog, cpc, outFile, writes>>

SkipDeep == SkipDeepAt(1)

\* lines 98-116: run help at the path, queue its children, register the path
ProbeAt(i) ==
    /\ Taking(i, "helpflag")
    /\ LET path == q[i].toks IN
       /\ ~AlreadyVisited(path, visited_help_paths)
       /\ ~TooDeep(path)
       /\ visited_help_paths' = visited_help_paths \cup {path}
       /\ \E p \in HelpOutputs :
             /\ path \in DOMAIN helpTree => p = helpTree[path]
             /\ helpTree' = (path :> p) @@ helpTree
             /\ LET subs == SubsOf[p] IN
                q' = Extend(Rest(i),
                            [n \in 1..Len(subs) |-> Item("helpflag", Append(path, subs[n]))])
       /\ probes' = Append(probes, path)
       /\ IF Registers(path)
          THEN registry' = Put(registry, path) /\ regLog' = Append(regLog, path)
          ELSE UNCHANGED <<registry, regLog>>
    /\ UNCHANGED <<seedLines, cpc, outFile, writes>>

Probe == ProbeAt(1)

\* lines 118-122: a literal command is registered as it is
RegisterCommandAt(i) ==
    /\ Taking(i, "command")
    /\ registry' = Put(registry, q[i].toks)
    /\ regLog' = Append(regLog, q[i].toks)
    /\ q' = Rest(i)
    /\ UNCHANGED <<seedLines, visited_help_paths, helpTree, probes, cpc, outFile, writes>>

RegisterCommand == RegisterCommandAt(1)

\* line 127 and 130: the loop ends, crawl_from_seeds returns to main
Return ==
    /\ cpc = "crawl"
    /\ LoopDone(q)
    /\ cpc' = "write"
    /\ UNCHANGED <<seedLines, q, registry, visited_help_paths, helpTree, probes, regLog,
                   outFile, writes>>

\* lines 131-133: main writes OUT_FILE
WriteOut ==
    /\ cpc = "write"
    /\ outFile' = json_dump(registry)
    /\ writes' = writes + 1
    /\ cpc' = "done"
    /\ UNCHANGED <<seedLines, q, registry, visited_help_paths, helpTree, probes, regLog>>

----------------------------------------------------------------------------
(* Specifications *)

vars == <<parseVars, apiVars, crawlVars>>

ParseNext == Parse /\ UNCHANGED <<apiVars, crawlVars>>

\* a help text is drawn; the other two programs are not running
ParseInit ==
    /\ pLines \in SeqsUpTo(LineSet, MaxLines)
    /\ pText = JoinWith(<<NL>>, pLines)
    /\ pOut = <<>>
    /\ ppc = "ready"
    /\ cmdFile = CommandFiles[1]
    /\ COMMANDS = <<>>
    /\ dpc = "off"
    /\ rq = [r \in Reqs |-> Idle]
    /\ seedLines = <<>>
    /\ q = <<>>
    /\ registry = <<>>
    /\ visited_help_paths = {}
    /\ helpTree = <<>>
    /\ probes = <<>>
    /\ regLog = <<>>
    /\ cpc = "off"
    /\ outFile = <<>>
    /\ writes = 0

SpecParse == ParseInit /\ [][ParseNext]_vars

CrawlNext ==
    \/ Enqueue /\ UNCHANGED <<parseVars, apiVars>>
    \/ SkipVisited /\ UNCHANGED <<parseVars, apiVars>>
    \/ SkipDeep /\ UNCHANGED <<parseVars, apiVars>>
    \/ Probe /\ UNCHANGED <<parseVars, apiVars>>
    \/ RegisterCommand /\ UNCHANGED <<parseVars, apiVars>>
    \/ Return /\ UNCHANGED <<parseVars, apiVars>>
    \/ WriteOut /\ UNCHANGED <<parseVars, apiVars>>

\* the state when main() is called, for each HELP_SEEDS
Init ==
    /\ seedLines \in SeqsUpTo(SeedLineSet, MaxSeeds)
    /\ q = <<>>
    /\ registry = <<>>
    /\ visited_help_paths = {}
    /\ helpTree = <<>>
    /\ probes = <<>>
    /\ regLog = <<>>
    /\ cpc = "start"
    /\ outFile = <<>>
    /\ writes = 0
    /\ pLines = <<>>
    /\ pText = <<>>
    /\ pOut = <<>>
    /\ ppc = "off"
    /\ cmdFile = CommandFiles[1]
    /\ COMMANDS = <<>>
    /\ dpc = "off"
    /\ rq = [r \in Reqs |-> Idle]

Spec == Init /\ [][CrawlNext]_vars

\* lines 89-125: one turn of the while loop, or the statements that lead to it
CrawlLoop ==
    (Enqueue \/ SkipVisited \/ SkipDeep \/ Probe \/ RegisterCommand)
        /\ UNCHANGED <<parseVars, apiVars>>

\* the crawler is one sequential thread and every help invocation returns, so a
\* turn of the loop that can be taken is taken
FairSpec == Spec /\ WF_vars(CrawlLoop)

\* a crawler that may take any item of its queue next, not only the oldest
AnyOrderNext ==
    \/ Enqueue /\ UNCHANGED <<parseVars, apiVars>>
    \/ \E i \in 1..Len(q) :
          /\ \/ SkipVisitedAt(i)
             \/ SkipDeepAt(i)
             \/ ProbeAt(i)
             \/ RegisterCommandAt(i)
          /\ UNCHANGED <<parseVars, apiVars>>
    \/ Return /\ UNCHANGED <<parseVars, apiVars>>
    \/ WriteOut /\ UNCHANGED <<parseVars, apiVars>>

\* help trees fixed in advance, for the paths within the depth cap: in both every
\* path at the cap reports children; in one b is a leaf, in the other a repeats a
AnyOrderTrees ==
    { [P \in SeqsUpTo({<<"a">>, <<"b">>}, MAX_DEPTH) |->
          IF P = << <<"b">> >> THEN HelpEmpty ELSE HelpAB],
      [P \in SeqsUpTo({<<"a">>, <<"b">>}, MAX_DEPTH) |->
          IF P = << <<"a">> >> THEN HelpA
          ELSE IF P = << <<"b">> >> THEN HelpNoHeader
          ELSE HelpAB] }

AnyOrderSeedLines ==
    { <<"--help", " ", "a">>, <<"b", " ", " ", "a", " ", "b">>, <<"a", ".", "b">> }

\* the state when main() is called, for each HELP_SEEDS, the tool's help being
\* one of the fixed trees
AnyOrderInit ==
    /\ seedLines \in SeqsUpTo(AnyOrderSeedLines, MaxSeeds)
    /\ q = <<>>
    /\ registry = <<>>
    /\ visited_help_paths = {}
    /\ helpTree \in AnyOrderTrees
    /\ probes = <<>>
    /\ regLog = <<>>
    /\ cpc = "start"
    /\ outFile = <<>>
    /\ writes = 0
    /\ pLines = <<>>
    /\ pText = <<>>
    /\ pOut = <<>>
    /\ ppc = "off"
    /\ cmdFile = CommandFiles[1]
    /\ COMMANDS = <<>>
    /\ dpc = "off"
    /\ rq = [r \in Reqs |-> Idle]

\* the crawl with the order of consumption left open
SpecAnyOrder == AnyOrderInit /\ [][AnyOrderNext]_vars

ApiNext ==
    \/ Load /\ UNCHANGED <<parseVars, crawlVars>>
    \/ \E r \in Reqs :
          /\ \/ Receive(r)
             \/ list_commands(r)
             \/ Lookup(r)
             \/ ResolveFile(r)
             \/ CheckExists(r)
             \/ Run(r)
             \/ Finish(r)
          /\ UNCHANGED <<parseVars, crawlVars>>

\* the state when api/main.py is imported, for each COMMANDS_FILE
ApiInit ==
    /\ \E i \in 1..Len(CommandFiles) : cmdFile = CommandFiles[i]
    /\ COMMANDS = <<>>
    /\ dpc = "boot"
    /\ rq = [r \in Reqs |-> Idle]
    /\ pLines = <<>>
    /\ pText = <<>>
    /\ pOut = <<>>
    /\ ppc = "off"
    /\ seedLines = <<>>
    /\ q = <<>>
    /\ registry = <<>>
    /\ visited_help_paths = {}
    /\ helpTree = <<>>
    /\ probes = <<>>
    /\ regLog = <<>>
    /\ cpc = "off"
    /\ outFile = <<>>
    /\ writes = 0

SpecApi == ApiInit /\ [][ApiNext]_vars

----------------------------------------------------------------------------
(* Claims about parse_subcommands *)

\* position of the first occurrence of x in names
FirstAt(names, x) == CHOOSE i \in 1..Len(names) : names[i] = x /\ \A k \in 1..(i - 1) : names[k] # x

\* out holds each of names once, ordered by first occurrence
IsOrderedDeDup(out, names) ==
    /\ Range(out) = Range(names)
    /\ \A i, j \in 1..Len(out) :
          i < j => out[i] # out[j] /\ FirstAt(names, out[i]) < FirstAt(names, out[j])

\* lines h..e of pLines are the text's first header, identifier lines only, and a blank line
IsHeaderBlock(h, e) ==
    /\ h < e
    /\ pLines[h] \in HeaderLines
    /\ \A j \in 1..(h - 1) : pLines[j] \notin HeaderLines
    /\ \A j \in (h + 1)..(e - 1) : pLines[j] \in IdentLines
    /\ pLines[e] \in BlankLines

BlockNames(h, e) == [j \in 1..(e - h - 1) |-> NameOf(pLines[h + j])]

NoHeaderLine == \A i \in 1..Len(pLines) : pLines[i] \notin HeaderLines

\* C13: for a help text none of whose lines is a Subcommands: header,
\* parse_subcommands returns the empty list, whatever indented identifier lines,
\* blank lines and other lines the text is made of.
C13_NoHeaderNoNames ==
    (ppc = "done" /\ NoHeaderLine) => pOut = <<>>

\* a text of identifier lines and a line that only starts like a header was parsed
C13_Witness ==
    /\ ppc = "done"
    /\ NoHeaderLine
    /\ pOut = <<>>
    /\ \E i, j \in 1..Len(pLines) :
          /\ i < j
          /\ pLines[i] = HeaderLine \o <<" ", "a">>
          /\ pLines[j] \in IdentLines

\* line j lies after a header with no blank line between the two
InSomeBlock(j) ==
    \E h \in 1..(j - 1) :
        /\ pLines[h] \in HeaderLines
        /\ \A k \in (h + 1)..j : pLines[k] \notin BlankLines

\* line j lies after the first header and before the first blank line that follows it
InFirstBlock(j) ==
    \E h \in 1..(j - 1) :
        /\ pLines[h] \in HeaderLines
        /\ \A k \in 1..(h - 1) : pLines[k] \notin HeaderLines
        /\ \A k \in (h + 1)..j : pLines[k] \notin BlankLines

RECURSIVE NamesFrom(_, _)
\* the names on those of the lines j.. of pLines whose number is in block, in line order
NamesFrom(j, block) ==
    IF j > Len(pLines) THEN <<>>
    ELSE IF j \in block /\ pLines[j] \notin HeaderLines /\ IdentMatch(pLines[j])
    THEN <<IdentGroup(pLines[j])>> \o NamesFrom(j + 1, block)
    ELSE NamesFrom(j + 1, block)

\* C17 as stated: with several header blocks, each block is processed up to its own
\* blank line, so the names of every block are returned.
C17_Original ==
    ppc = "done" => IsOrderedDeDup(pOut, NamesFrom(1, {j \in 1..Len(pLines) : InSomeBlock(j)}))

\* C17, amended: names are collected only between the first Subcommands: header and
\* the first blank line after it, where the scan stops: later header blocks give no
\* names, without a closing blank line collection runs to the end of the text, and
\* a header immediately followed by a blank line gives no names at all.
C17_FirstBlockOnly ==
    ppc = "done" => IsOrderedDeDup(pOut, NamesFrom(1, {j \in 1..Len(pLines) : InFirstBlock(j)}))

\* a text with an empty first block and a second block holding a name was parsed
C17_Witness ==
    /\ ppc = "done"
    /\ Len(pLines) = 4
    /\ pLines[1] \in HeaderLines
    /\ pLines[2] \in BlankLines
    /\ pLines[3] \in HeaderLines
    /\ pLines[4] \in IdentLines
    /\ pOut = <<>>

----------------------------------------------------------------------------
(* Claims about the dispatcher *)

IsSegment(c) == c # <<>> /\ c # <<".">>

\* the directory names of a path, "." and empty components dropped
PathSegs(p) == SelectSeq(split(p, SEP), IsSegment)

RECURSIVE Walk(_, _)
\* where following segs from the directory stack leads; .. of the root is the root
Walk(stack, segs) ==
    IF segs = <<>> THEN stack
    ELSE IF Head(segs) = DotDot
    THEN Walk(IF stack = <<>> THEN stack ELSE SubSeq(stack, 1, Len(stack) - 1), Tail(segs))
    ELSE Walk(Append(stack, Head(segs)), Tail(segs))

BaseSegs(base) == Walk(<<>>, PathSegs(base))

\* the directory names of the file a caller-supplied path names under base
ResolvedSegs(base, rel) ==
    Walk(IF StartsWith(rel, <<SEP>>) THEN <<>> ELSE BaseSegs(base), PathSegs(rel))

ResolvesOutside(base, rel) == ~StartsWith(ResolvedSegs(base, rel), BaseSegs(base))

\* the absolute path of that file
ResolvedPath(base, rel) == <<SEP>> \o JoinWith(<<SEP>>, ResolvedSegs(base, rel))

\* the request names a file (a non-empty path)
FileGiven(r) == rq[r].file.given /\ rq[r].file.v # <<>>

InFlight(r) == rq[r].pc # "idle" /\ rq[r].resp.detail # "commands"

\* C5: a run request whose file path resolves outside SAVE_DIR never reaches the
\* existence check or the process: no check and no spawn is recorded for it, and
\* once its command is found it ends with the 400 "invalid path" outcome.
C5_OutsidePathRejectedFirst ==
    \A r \in Reqs :
        (InFlight(r) /\ FileGiven(r) /\ ResolvesOutside(SAVE_DIR, rq[r].file.v)) =>
            /\ rq[r].existsChecks = <<>>
            /\ rq[r].spawns = <<>>
            /\ rq[r].pc \notin {"exists", "run"}
            /\ rq[r].pc = "done" => rq[r].resp.status \in {400, 404, 500}
            /\ (rq[r].pc = "done" /\ rq[r].cmd # <<>>) => rq[r].resp.status = 400

\* a request for a known command with a path that leaves SAVE_DIR was rejected
C5_Witness ==
    \E r \in Reqs :
        /\ rq[r].pc = "done"
        /\ FileGiven(r)
        /\ ResolvesOutside(SAVE_DIR, rq[r].file.v)
        /\ rq[r].file.v = <<".", ".", "/", "d", "x">>
        /\ rq[r].resp.status = 400

\* [binary] + A + (["--file", resolved(F)] if F is given) + E
ExpectedArgv(r) ==
    <<JStr(DI2SAVE_CMD)>>
    \o COMMANDS[rq[r].key].m["argv"].l
    \o (IF FileGiven(r)
        THEN <<JStr(FileFlag), JStr(ResolvedPath(SAVE_DIR, rq[r].file.v))>>
        ELSE <<>>)
    \o [i \in 1..Len(rq[r].extra) |-> JStr(rq[r].extra[i])]

\* C6: what a request executes is exactly [binary] + A + (--file and the resolved
\* path, when a non-empty file is given) + E, and a 200 response carries that argv,
\* the process's exit code, and its stdout and stderr unmodified whenever they are
\* no longer than MAX_OUTPUT_CHARS.
C6_ArgvAndOutputRelayed ==
    \A r \in Reqs :
        /\ \A i \in 1..Len(rq[r].spawns) : rq[r].spawns[i] = ExpectedArgv(r)
        /\ (rq[r].pc = "done" /\ rq[r].proc.kind = "exit") =>
              /\ rq[r].spawns # <<>>
              /\ rq[r].resp.status = 200
              /\ rq[r].resp.cmd = ExpectedArgv(r)
              /\ rq[r].resp.exit_code = rq[r].proc.rc
              /\ Len(rq[r].proc.out) <= MAX_OUTPUT_CHARS => rq[r].resp.stdout = rq[r].proc.out
              /\ Len(rq[r].proc.err) <= MAX_OUTPUT_CHARS => rq[r].resp.stderr = rq[r].proc.err

\* a request with a file and an extra token ran, its stdout exactly at the cap
C6_Witness ==
    \E r \in Reqs :
        /\ rq[r].pc = "done"
        /\ rq[r].resp.status = 200
        /\ FileGiven(r)
        /\ rq[r].extra # <<>>
        /\ Len(rq[r].proc.out) = MAX_OUTPUT_CHARS
        /\ Len(rq[r].resp.cmd) = 5

\* not an object, an object without "argv", or an "argv" that is not a list
Malformed(v) ==
    \/ v.t # "obj"
    \/ "argv" \notin DOMAIN v.m
    \/ v.m["argv"].t # "list"

\* C7: a request whose key is absent from the registry, or whose registry value is
\* malformed, ends with the 404 outcome and spawns no process.
C7_UnknownOrMalformedIs404 ==
    \A r \in Reqs :
        (rq[r].pc = "done" /\ InFlight(r)
         /\ (rq[r].key \notin DOMAIN COMMANDS \/ Malformed(COMMANDS[rq[r].key]))) =>
            /\ rq[r].resp.status = 404
            /\ rq[r].spawns = <<>>

\* C8: a request spawns the external process at most once; one rejected for an
\* unknown command, an invalid path or a missing file spawns it zero times, and one
\* whose process timed out ends with 504 after exactly one spawn.
C8_AtMostOneSpawn ==
    \A r \in Reqs :
        /\ Len(rq[r].spawns) <= 1
        /\ (rq[r].pc = "done" /\ rq[r].resp.status \in {400, 404}) => rq[r].spawns = <<>>
        /\ (rq[r].pc = "done" /\ rq[r].proc.kind = "timeout") =>
              rq[r].resp.status = 504 /\ Len(rq[r].spawns) = 1
        /\ (rq[r].pc = "done" /\ rq[r].resp.status = 504) => rq[r].proc.kind = "timeout"

\* a request timed out and was answered 504
C8_Witness ==
    \E r \in Reqs :
        /\ rq[r].pc = "done"
        /\ rq[r].proc.kind = "timeout"
        /\ rq[r].resp.status = 504
        /\ Len(rq[r].spawns) = 1

----------------------------------------------------------------------------
(* Claims about the crawler *)

\* the queue items the seed lines stand for
SeedItemSet == Range(SeedItems(seedLines, 1, <<>>))

\* the token lists of the literal-command seeds
CommandSeeds == {it.toks : it \in {x \in SeedItemSet : x.kind = "command"}}

NoSeeds == SeedItemSet = {}

\* crawl_from_seeds has returned
Crawled == cpc \in {"write", "done"}

\* the parsed children of a path, from the help text the tool printed for it
Children(P) ==
    IF P \in DOMAIN helpTree
    THEN Range(SubsOf[helpTree[P]])
    ELSE {}

RECURSIVE ReachAt(_)
\* the paths of length n reachable from the root through the child relation
ReachAt(n) ==
    IF n = 0 THEN {<<>>}
    ELSE UNION {{Append(P, c) : c \in Children(P)} : P \in ReachAt(n - 1)}

Reachable == UNION {ReachAt(n) : n \in 1..MAX_DEPTH}

ExpectedRegistry ==
    [k \in {dotted_key(P) : P \in Reachable} |->
        [argv |-> CHOOSE P \in Reachable : dotted_key(P) = k]]

\* C1: with no extra seeds, the registry the crawl returns is exactly the non-empty
\* paths of length at most MAX_DEPTH reachable from the root through the parsed
\* child relation, each under its dotted key with argv equal to the path.
C1_RegistryIsReachableSet ==
    (Crawled /\ NoSeeds) => registry = ExpectedRegistry

\* a crawl without seeds ended with a two-level registry, the cap having cut a path
C1_Witness ==
    /\ cpc = "done"
    /\ NoSeeds
    /\ Cardinality(DOMAIN registry) >= 3
    /\ \E k \in DOMAIN registry : Len(registry[k].argv) = MAX_DEPTH
    /\ \E P \in visited_help_paths : Len(P) = MAX_DEPTH + 1

NoProbeAtCapBoundary == \A i \in 1..Len(probes) : Len(probes[i]) # MAX_DEPTH + 1

\* C2 as stated: no path of MAX_DEPTH + 1 tokens is probed or registered, for every
\* help tree and every seed list.
C2_Original ==
    /\ NoProbeAtCapBoundary
    /\ \A k \in DOMAIN registry : Len(registry[k].argv) # MAX_DEPTH + 1

\* C2, amended: no path of MAX_DEPTH + 1 tokens is probed, and one is registered
\* only as the token list of a literal-command seed.
C2_CapBoundary ==
    /\ NoProbeAtCapBoundary
    /\ \A k \in DOMAIN registry :
          Len(registry[k].argv) = MAX_DEPTH + 1 => registry[k].argv \in CommandSeeds

\* the crawl dropped a help item of MAX_DEPTH + 1 tokens that a shorter path led to
C2_Witness ==
    /\ cpc = "done"
    /\ \E P \in visited_help_paths :
          /\ Len(P) = MAX_DEPTH + 1
          /\ SubSeq(P, 1, MAX_DEPTH) \in Range(probes)
          /\ P \notin Range(probes)
          /\ P \notin Range(regLog)

\* C3 as stated: the final registry holds every literal-command seed T under
\* join(T, ".") with argv == T, whatever else is registered before or after it.
C3_Original ==
    cpc = "done" =>
        \A T \in CommandSeeds :
            /\ dotted_key(T) \in DOMAIN registry
            /\ registry[dotted_key(T)].argv = T

\* the token list written last under key k
LastWritten(k) ==
    regLog[CHOOSE i \in 1..Len(regLog) :
              /\ dotted_key(regLog[i]) = k
              /\ \A j \in (i + 1)..Len(regLog) : dotted_key(regLog[j]) # k]

\* C3, amended: the final registry holds key join(T, ".") for every literal-command
\* seed T, whatever its depth and the visited set; its argv is the token list
\* registered last under that key, so it is T unless a different token list with
\* the same dotted key was registered after T.
C3_SeedRegisteredLastWriteWins ==
    Crawled =>
        \A T \in CommandSeeds :
            LET k == dotted_key(T) IN
            /\ k \in DOMAIN registry
            /\ T \in Range(regLog)
            /\ registry[k].argv = LastWritten(k)
            /\ registry[k].argv # T =>
                  \E i, j \in 1..Len(regLog) :
                      i < j /\ regLog[i] = T /\ regLog[j] = registry[k].argv

\* a literal command deeper than the cap, its path already in the visited set, is
\* in the final registry
C3_Witness ==
    /\ cpc = "done"
    /\ \E T \in CommandSeeds :
          /\ Len(T) > MAX_DEPTH
          /\ T \in visited_help_paths
          /\ registry[dotted_key(T)].argv = T

\* the step that pops a help item whose help text turns out to be malformed
MalformedProbeStep ==
    /\ Popping("helpflag")
    /\ Head(q).toks \notin visited_help_paths
    /\ Len(Head(q).toks) <= MAX_DEPTH
    /\ Head(q).toks \in DOMAIN helpTree'
    /\ helpTree'[Head(q).toks] \in MalformedOutputs

\* C9: a help probe that gets empty or malformed text queues no child and is no
\* error: the path, when not the root, is still registered and the loop goes on
\* with the rest of the queue, towards the return of the registry.
C9_MalformedHelpIsZeroChildren ==
    [][MalformedProbeStep =>
          /\ q' = Tail(q)
          /\ cpc' = "crawl"
          /\ probes' = Append(probes, Head(q).toks)
          /\ Head(q).toks # <<>> =>
                /\ dotted_key(Head(q).toks) \in DOMAIN registry'
                /\ registry'[dotted_key(Head(q).toks)].argv = Head(q).toks]_vars

\* a path with malformed help was registered, other paths were probed after it, and
\* the crawl finished
C9_Witness ==
    /\ cpc = "done"
    /\ \E i, j \in 1..Len(probes) :
          /\ i < j
          /\ probes[i] # <<>>
          /\ helpTree[probes[i]] \in MalformedOutputs
          /\ dotted_key(probes[i]) \in DOMAIN registry
          /\ Len(probes[j]) = MAX_DEPTH

\* the file holds the registry, one pair per key, in ascending key order
FileIsRegistry ==
    /\ {outFile[i][1] : i \in 1..Len(outFile)} = DOMAIN registry
    /\ \A i \in 1..Len(outFile) : outFile[i][2] = registry[outFile[i][1]].argv
    /\ \A i, j \in 1..Len(outFile) : i < j => StrLess(outFile[i][1], outFile[j][1])

\* C10: OUT_FILE is written once per run and only after the queue is empty: no
\* state with a non-empty queue has a write behind it, and what is written is the
\* complete final registry.
C10_WrittenOnceAfterCrawl ==
    /\ writes <= 1
    /\ q # <<>> => writes = 0
    /\ cpc # "done" => writes = 0 /\ outFile = <<>>
    /\ cpc = "done" => writes = 1 /\ q = <<>> /\ FileIsRegistry

\* a registry of seeded and discovered commands was written
C10_Witness ==
    /\ cpc = "done"
    /\ writes = 1
    /\ Len(outFile) >= 3
    /\ CommandSeeds # {}
    /\ \E i \in 1..Len(outFile) : outFile[i][2] \notin CommandSeeds

\* the seed lines that are a bare --help
RootSeeds == {i \in 1..Len(seedLines) : parse_seed_line(seedLines[i]) = Item("helpflag", <<>>)}

\* C11: the root is never registered: in every state of the crawl the registry has
\* no empty-string key and no entry with an empty argv, and nothing empty was ever
\* written to it, also when a --help seed without tokens asks for the root again.
C11_RootNeverRegistered ==
    /\ <<>> \notin DOMAIN registry
    /\ \A k \in DOMAIN registry : registry[k].argv # <<>>
    /\ \A i \in 1..Len(regLog) : regLog[i] # <<>>

\* the root was probed, a bare --help seed was consumed, and commands were found
C11_Witness ==
    /\ cpc = "done"
    /\ RootSeeds # {}
    /\ <<>> \in Range(probes)
    /\ CommandSeeds # {}
    /\ Cardinality(DOMAIN registry) >= 2

\* the paths of the --help seeds
HelpSeeds == {it.toks : it \in {x \in SeedItemSet : x.kind = "helpflag"}}

\* how many times path was handed to run_help_tokens
ProbeCount(path) == Cardinality({i \in 1..Len(probes) : probes[i] = path})

\* C14: run_help_tokens is called at most once for a path during a crawl, however
\* often the path is queued (as a --help seed, as a discovered child, or both):
\* every probed path is in the visited set, a probe is of a path that was not in
\* the set and puts it there, and no path ever leaves the set.
C14_ProbedAtMostOnce ==
    /\ [](\A i, j \in 1..Len(probes) : probes[i] = probes[j] => i = j)
    /\ [](Range(probes) \subseteq visited_help_paths)
    /\ [][/\ visited_help_paths \subseteq visited_help_paths'
          /\ probes' # probes =>
                /\ probes' = Append(probes, Head(q).toks)
                /\ Head(q).toks \notin visited_help_paths
                /\ Head(q).toks \in visited_help_paths']_vars

\* a path queued both by a --help seed and as a child of a probed path, and the
\* root queued twice, were each probed once
C14_Witness ==
    /\ cpc = "done"
    /\ <<>> \in HelpSeeds
    /\ ProbeCount(<<>>) = 1
    /\ \E P \in HelpSeeds :
          /\ P # <<>>
          /\ Last(P) \in Children(SubSeq(P, 1, Len(P) - 1))
          /\ SubSeq(P, 1, Len(P) - 1) \in Range(probes)
          /\ ProbeCount(P) = 1

\* every child name the tool's help may report
ChildNames == UNION {Range(SubsOf[p]) : p \in HelpOutputs}

\* the distinct paths of at most MAX_DEPTH tokens
PathsWithinCap == SeqsUpTo(ChildNames, MAX_DEPTH)

\* C15: the crawl terminates, the frontier becoming empty, for every help tree with
\* finitely many child names per path, one in which every path reports children
\* included; only paths of at most MAX_DEPTH tokens are probed, and the number of
\* probes never exceeds the number of distinct such paths.
C15_CrawlTerminates ==
    /\ <>(cpc # "start" /\ q = <<>>)
    /\ [](\A i \in 1..Len(probes) : Len(probes[i]) <= MAX_DEPTH)
    /\ [](Len(probes) <= Cardinality(PathsWithinCap))

\* a crawl of a tree in which every path reports children ended, having probed
\* every path within the cap
C15_Witness ==
    /\ cpc = "done"
    /\ q = <<>>
    /\ \A P \in DOMAIN helpTree : Children(P) # {}
    /\ Len(probes) = Cardinality(PathsWithinCap)
    /\ \E P \in visited_help_paths : Len(P) > MAX_DEPTH

\* the items a step put into the queue, given that it took the head out
Added == SubSeq(q', Len(q), Len(q'))

\* C16: the frontier is consumed in the order it was filled: it starts as the root
\* probe followed by the seeds in seed-list order, every turn of the loop takes
\* exactly the oldest item out and puts what it discovers behind all the others,
\* in discovery order; with no seeds the probed paths therefore never get shorter.
C16_FifoOrder ==
    /\ [][(cpc = "start" /\ cpc' = "crawl") =>
             /\ Head(q') = Item("helpflag", <<>>)
             /\ Tail(q') = SeedItems(seedLines, 1, <<>>)]_vars
    /\ [][(cpc = "crawl" /\ cpc' = "crawl") =>
             /\ q # <<>>
             /\ Len(q') >= Len(q) - 1
             /\ SubSeq(q', 1, Len(q) - 1) = Tail(q)
             /\ \A i \in 1..Len(Added) :
                   /\ Added[i].kind = "helpflag"
                   /\ SubSeq(Added[i].toks, 1, Len(Head(q).toks)) = Head(q).toks
                   /\ Len(Added[i].toks) = Len(Head(q).toks) + 1
                   /\ Head(q).toks \in DOMAIN helpTree'
                   /\ Last(Added[i].toks) = SubsOf[helpTree'[Head(q).toks]][i]]_vars
    /\ [](NoSeeds => \A i, j \in 1..Len(probes) : i < j => Len(probes[i]) <= Len(probes[j]))

\* a crawl without seeds probed both first-level paths before any second-level one
C16_Witness ==
    /\ cpc = "done"
    /\ NoSeeds
    /\ Len(probes) >= 5
    /\ Len(probes[2]) = 1
    /\ Len(probes[3]) = 1
    /\ Len(probes[4]) = 2
    /\ SubSeq(probes[4], 1, 1) = probes[2]

\* every entry is filed under the dotted key of its argv, which is the token list
\* written last under that key
EntriesMatchLastWrite ==
    \A k \in DOMAIN registry :
        /\ k = dotted_key(registry[k].argv)
        /\ registry[k].argv = LastWritten(k)

HasDot(token) == DOT \in Range(token)

\* C18 as stated: key == '.'.join(argv), argv is the token list that last wrote the
\* key, and writing an existing key again never changes the stored argv.
C18_Original ==
    /\ []EntriesMatchLastWrite
    /\ [][\A k \in DOMAIN registry :
             k \in DOMAIN registry' /\ registry'[k].argv = registry[k].argv]_vars

\* C18, amended: in every state each entry has key == '.'.join(argv) and its argv is
\* the token list of the item that last wrote the key; registering a token list
\* that the key already holds changes nothing, and a write changes a stored argv
\* only when it is a different token list with the same dotted key, one of the two
\* having a token that contains '.'.
C18_KeyMatchesLastWriter ==
    /\ []EntriesMatchLastWrite
    /\ [][\A k \in DOMAIN registry :
             /\ k \in DOMAIN registry'
             /\ registry'[k].argv # registry[k].argv =>
                   /\ regLog' = Append(regLog, registry'[k].argv)
                   /\ dotted_key(registry'[k].argv) = k
                   /\ \/ \E i \in 1..Len(registry[k].argv) : HasDot(registry[k].argv[i])
                      \/ \E j \in 1..Len(registry'[k].argv) : HasDot(registry'[k].argv[j])]_vars
    /\ [][(/\ regLog' # regLog
           /\ dotted_key(Last(regLog')) \in DOMAIN registry
           /\ registry[dotted_key(Last(regLog'))].argv = Last(regLog')) =>
              registry' = registry]_vars

\* a token list was registered twice, and a seed token holding '.' was registered
C18_Witness ==
    /\ cpc = "done"
    /\ \E i, j \in 1..Len(regLog) :
          /\ i < j
          /\ regLog[i] = regLog[j]
          /\ registry[dotted_key(regLog[i])].argv = regLog[i]
          /\ \E n \in 1..Len(regLog[i]) : HasDot(regLog[i][n])

\* no seed token contains a '.'; the names parse_subcommands returns never do
NoDotTokens ==
    \A it \in SeedItemSet : \A i \in 1..Len(it.toks) : ~HasDot(it.toks[i])

RECURSIVE ProbeClosure(_)
\* S and the paths within the cap that the children of its paths lead to
ProbeClosure(S) ==
    LET more == S \cup {R \in UNION {{Append(P, c) : c \in Children(P)} : P \in S} :
                           Len(R) <= MAX_DEPTH}
    IN IF more = S THEN S ELSE ProbeClosure(more)

\* the paths a crawl probes: the root, the --help seeds, and what they lead to
ProbedPaths == ProbeClosure({P \in {<<>>} \cup HelpSeeds : Len(P) <= MAX_DEPTH})

\* the commands a crawl registers
Registered == (ProbedPaths \ {<<>>}) \cup CommandSeeds

\* C20: when no token contains a '.', the registry the crawl ends with is the same
\* whatever the order the frontier is consumed in (first-in-first-out, last-in-
\* first-out or any other): it is determined by the seeds and the help tree alone,
\* also when the depth cap cuts the tree.
C20_OrderIndependent ==
    (Crawled /\ NoDotTokens) =>
        /\ DOMAIN registry = {dotted_key(P) : P \in Registered}
        /\ \A P \in Registered : registry[dotted_key(P)].argv = P

\* a crawl that consumed its frontier out of order, with seeds and a tree cut by
\* the cap, ended
C20_Witness ==
    /\ cpc = "done"
    /\ NoDotTokens
    /\ CommandSeeds # {}
    /\ \E i, j \in 1..Len(probes) : i < j /\ Len(probes[i]) > Len(probes[j])
    /\ \E P \in visited_help_paths : Len(P) > MAX_DEPTH /\ SubSeq(P, 1, MAX_DEPTH) \in Range(probes)
    /\ Cardinality(Registered) >= 4

----------------------------------------------------------------------------
(* Claims about the in-memory registry *)

\* C19: handling requests never changes the in-memory registry: while the server
\* serves, after any interleaving of run and list requests, successful or failed,
\* COMMANDS is the value loaded at start-up; the --file pair and the extra tokens
\* go to the request's own argv, not to the entry's.
C19_RegistryReadOnly ==
    /\ dpc = "serving" => COMMANDS = cmdFile.value.m
    /\ dpc # "serving" => COMMANDS = <<>>

\* one request ran with a file and an extra token, another for the same command
\* was rejected, and the entry still holds its one-token argv
C19_Witness ==
    /\ dpc = "serving"
    /\ rq["r1"].pc = "done"
    /\ rq["r1"].resp.status = 200
    /\ Len(rq["r1"].resp.cmd) = 5
    /\ rq["r2"].pc = "done"
    /\ rq["r2"].key = rq["r1"].key
    /\ rq["r2"].resp.status = 400
    /\ Len(COMMANDS[rq["r1"].key].m["argv"].l) = 1

----------------------------------------------------------------------------
(* Claims about loading the registry file *)

\* the file exists and holds a JSON object all of whose values are objects
WellFormedMapping(file) ==
    /\ file.kind = "json"
    /\ file.value.t = "obj"
    /\ \A k \in DOMAIN file.value.m : file.value.m[k].t = "obj"

\* C12: when COMMANDS_FILE is missing or does not hold a well-formed mapping from
\* keys to objects (a JSON object with a value that is no object included), the
\* start-up aborts: the server never serves and no request is ever taken.
C12_MalformedFileAbortsStartup ==
    ~WellFormedMapping(cmdFile) =>
        /\ dpc \in {"boot", "aborted"}
        /\ \A r \in Reqs : rq[r] = Idle

====
